---- MODULE Spec2Model ----
(***************************************************************************)
(* Model of tensorflow-metrics: get_metrics_from_console_logs.py (the      *)
(* MetricsExtractor and the __main__ driver) and visualize_metrics.py (the *)
(* MetricsVisualizer).                                                     *)
(*                                                                         *)
(* Text is a sequence of tokens.  A token is one character ("1", ".",      *)
(* "]", ...), one whole literal prefix of a metric regex (" ITERATION ",   *)
(* "# Env. Steps:   ", ...) or CSI, one whole ANSI colour sequence.  A log *)
(* file is a sequence of lines, a line is a sequence of tokens without its *)
(* newline.                                                                *)
(*                                                                         *)
(* A Python value in a series is a record [t, n, e, s]:                    *)
(*   t = "int"   : the integer n                                           *)
(*   t = "float" : the decimal n / 10^e, with n not a multiple of 10 when  *)
(*                 e > 0 (so equal numbers are equal records)              *)
(*   t = "str"   : the text s                                              *)
(*   t = "none"  : None                                                    *)
(***************************************************************************)
EXTENDS Integers, Sequences, FiniteSets, TLC

VARIABLES args, logs, registry, driver, pc, cur, lineno, ex, outcome, calls,
          snaps, vis, vpos, fs

vars == <<args, logs, registry, driver, pc, cur, lineno, ex, outcome, calls,
          snaps, vis, vpos, fs>>

----------------------------------------------------------------------------
(* Python values *)

IntV(n) == [t |-> "int", n |-> n, e |-> 0, s |-> <<>>]

FloatV(n, e) == [t |-> "float", n |-> n, e |-> e, s |-> <<>>]

StrV(s) == [t |-> "str", n |-> 0, e |-> 0, s |-> s]

NoneV == [t |-> "none", n |-> 0, e |-> 0, s |-> <<>>]

----------------------------------------------------------------------------
(* Text: digits, formatting of the numbers a training script prints *)

Digits == <<"0", "1", "2", "3", "4", "5", "6", "7", "8", "9">>

DigitSet == {Digits[i] : i \in 1..10}

DigitVal(c) == (CHOOSE i \in 1..10 : Digits[i] = c) - 1

RECURSIVE FmtNat(_)
\* decimal digits of a natural number, most significant first
FmtNat(n) == IF n < 10 THEN <<Digits[n + 1]>>
             ELSE Append(FmtNat(n \div 10), Digits[(n % 10) + 1])

\* str(n) of an int
FmtInt(n) == IF n < 0 THEN <<"-">> \o FmtNat(-n) ELSE FmtNat(n)

RECURSIVE Pow10(_)
Pow10(e) == IF e = 0 THEN 1 ELSE 10 * Pow10(e - 1)

RECURSIVE ZeroPad(_, _)
ZeroPad(ds, width) == IF Len(ds) >= width THEN ds ELSE ZeroPad(<<"0">> \o ds, width)

\* the text of the decimal n / 10^e (n >= 0, e >= 1) with e fraction digits
FmtFloat(n, e) == FmtNat(n \div Pow10(e)) \o <<".">> \o ZeroPad(FmtNat(n % Pow10(e)), e)

----------------------------------------------------------------------------
(* int(value) and float(value) of Python, on the tokens of this model:     *)
(* surrounding blanks are stripped, one sign is allowed, int takes digits  *)
(* only, float takes digits with at most one "." and at least one digit.   *)
(* (Exponents, "inf", "nan" and "_" need characters no text here holds.)   *)

RECURSIVE LStrip(_)
LStrip(s) == IF s # <<>> /\ Head(s) = " " THEN LStrip(Tail(s)) ELSE s

RECURSIVE RStrip(_)
RStrip(s) == IF s # <<>> /\ s[Len(s)] = " " THEN RStrip(SubSeq(s, 1, Len(s) - 1)) ELSE s

Strip(s) == RStrip(LStrip(s))

HasSign(s) == s # <<>> /\ Head(s) \in {"-", "+"}

Unsigned(s) == IF HasSign(s) THEN Tail(s) ELSE s

SignOf(s) == IF s # <<>> /\ Head(s) = "-" THEN -1 ELSE 1

RECURSIVE NatOf(_)
\* the number a sequence of digits denotes
NatOf(ds) == IF ds = <<>> THEN 0
             ELSE 10 * NatOf(SubSeq(ds, 1, Len(ds) - 1)) + DigitVal(ds[Len(ds)])

IsInt(s) == LET b == Unsigned(Strip(s))
            IN  b # <<>> /\ \A i \in 1..Len(b) : b[i] \in DigitSet

IntOf(s) == SignOf(Strip(s)) * NatOf(Unsigned(Strip(s)))

IsDigitTok(c) == c \in DigitSet

IsFloat(s) == LET b == Unsigned(Strip(s))
              IN  /\ \A i \in 1..Len(b) : b[i] \in DigitSet \cup {"."}
                  /\ Cardinality({i \in 1..Len(b) : b[i] = "."}) <= 1
                  /\ \E i \in 1..Len(b) : b[i] \in DigitSet

RECURSIVE Normal(_, _)
\* drop trailing fraction zeros: 1.50 and 1.5 are the same float
Normal(n, e) == IF e > 0 /\ n % 10 = 0 THEN Normal(n \div 10, e - 1) ELSE FloatV(n, e)

FloatOf(s) == LET b == Unsigned(Strip(s))
                  dots == {i \in 1..Len(b) : b[i] = "."}
                  e == IF dots = {} THEN 0 ELSE Len(b) - (CHOOSE i \in dots : TRUE)
              IN  Normal(SignOf(Strip(s)) * NatOf(SelectSeq(b, IsDigitTok)), e)

\* cast_to with the except branches returning nothing instead of the value
cast_to_drops_unparsed(value, type) ==
    IF type = "int" THEN (IF IsInt(value) THEN IntV(IntOf(value)) ELSE NoneV)
    ELSE IF type = "float" THEN (IF IsFloat(value) THEN FloatOf(value) ELSE NoneV)
    ELSE IF type = "str" \/ type = "string" THEN StrV(value)
    ELSE NoneV

\* MetricsExtractor.cast_to: the value for a known type, the captured text
\* itself when int()/float() raises, None (a bare return) for any other type
cast_to(value, type) ==
    IF type = "int" THEN (IF IsInt(value) THEN IntV(IntOf(value)) ELSE StrV(value))
    ELSE IF type = "float" THEN (IF IsFloat(value) THEN FloatOf(value) ELSE StrV(value))
    ELSE IF type = "str" \/ type = "string" THEN StrV(value)
    ELSE NoneV

----------------------------------------------------------------------------
(* Python dicts keep insertion order: a dict is a sequence of [k, v].      *)

HasKey(d, k) == \E i \in 1..Len(d) : d[i].k = k

Get(d, k) == d[CHOOSE i \in 1..Len(d) : d[i].k = k].v

\* d[k] = v: in place for a key the dict holds, at the end for a new key
Put(d, k, v) == IF HasKey(d, k)
                THEN [i \in 1..Len(d) |-> IF d[i].k = k THEN [k |-> k, v |-> v] ELSE d[i]]
                ELSE Append(d, [k |-> k, v |-> v])

Keys(d) == [i \in 1..Len(d) |-> d[i].k]

----------------------------------------------------------------------------
(* The pattern registry.  Every regex is ^prefix<one group>suffix$; an     *)
(* entry holds the literal prefix as one token, the literal suffix as      *)
(* character tokens, and the optional datatype as a tuple of 0 or 1 names. *)

Metric(name, prefix, suffix, dtype) ==
    [name |-> name, prefix |-> prefix, suffix |-> suffix, dtype |-> dtype]

TRAIN_METRICS_REGEX ==
    << Metric("iteration", " ITERATION ", <<>>, <<"int">>),
       Metric("env_steps", "# Env. Steps:   ", <<>>, <<"int">>),
       Metric("train_steps", "# Train Steps:  ", <<>>, <<"int">>),
       Metric("collect_time", "# Collect time: [", <<"]", "s">>, <<"float">>),
       Metric("train_time", "# Train time:   [", <<"]", "s">>, <<"float">>) >>

EVAL_METRICS_REGEX ==
    << Metric("eval_time", "# Eval time: [", <<"]", "s">>, <<"float">>),
       Metric("eval_avg_return", "# Eval average return: ", <<>>, <<"float">>) >>

DefaultRegistry == [train |-> TRAIN_METRICS_REGEX, eval |-> EVAL_METRICS_REGEX]

\* The registry with other datatypes, as its comment allows them to be set:
\* a type cast_to does not know, no type at all, and "string".
EditedRegistry ==
    [train |-> << Metric("iteration", " ITERATION ", <<>>, <<"int">>),
                  Metric("env_steps", "# Env. Steps:   ", <<>>, <<"bool">>),
                  Metric("train_steps", "# Train Steps:  ", <<>>, <<>>),
                  Metric("collect_time", "# Collect time: [", <<"]", "s">>, <<"string">>),
                  Metric("train_time", "# Train time:   [", <<"]", "s">>, <<"float">>) >>,
     eval |-> EVAL_METRICS_REGEX]

KnownTypes == {"int", "float", "str", "string"}

----------------------------------------------------------------------------
(* Lines *)

CSI == "ESC[0m"

\* COLOR_CODE_REGEX == "" would switch the cleaning off; it is not ""
is_not_clean == FALSE

IsNotCSI(tok) == tok # CSI

\* the cleaning switched off
clean_stream_off(line) == line

\* MetricsExtractor.clean_stream_from_color_coding
clean_stream_from_color_coding(line) ==
    IF is_not_clean THEN line ELSE SelectSeq(line, IsNotCSI)

\* pattern.findall(line) for ^prefix<group>suffix$: the list of the one capture,
\* or the empty list
findall(pattern, line) ==
    LET n == Len(line)
        k == Len(pattern.suffix)
    IN  IF /\ n >= 1 + k
           /\ line[1] = pattern.prefix
           /\ SubSeq(line, n - k + 1, n) = pattern.suffix
        THEN << SubSeq(line, 2, n - k) >>
        ELSE <<>>

\* the loop body without the test of match != []: a line that does not
\* match leaves a None in the series
SeriesAfterLineUnguarded(series, title, pattern, dtypes, line) ==
    LET match == findall(pattern, line)
        d_type == IF HasKey(dtypes, title) THEN Get(dtypes, title) ELSE "str"
    IN  IF match # <<>> THEN Append(series, cast_to(match[1], d_type))
        ELSE Append(series, NoneV)

\* the body of the loop over one pattern (lines 185-211): the series of
\* metric `title` after the cleaned line was tested against its pattern
SeriesAfterLine(series, title, pattern, dtypes, line) ==
    LET match == findall(pattern, line)
    IN  IF match # <<>>
        THEN LET hit == match[1]
                 d_type == IF HasKey(dtypes, title) THEN Get(dtypes, title) ELSE "str"
             IN  Append(series, cast_to(hit, d_type))
        ELSE series

RECURSIVE ApplyPatterns(_, _, _, _, _)
\* the loop over the patterns of one kind, from pattern i on
ApplyPatterns(m_dict, pats, i, dtypes, line) ==
    IF i > Len(pats) THEN m_dict
    ELSE LET title == pats[i].k
             after == SeriesAfterLine(Get(m_dict, title), title, pats[i].v, dtypes, line)
         IN  ApplyPatterns(Put(m_dict, title, after), pats, i + 1, dtypes, line)

\* one iteration of "for line in f" (lines 176-211) on the metrics of a run
MetricsAfterLine(e, rawline) ==
    LET line == clean_stream_from_color_coding(rawline)
    IN  [k \in {"train", "eval"} |->
            ApplyPatterns(e.metrics[k], e.patterns[k], 1, e.metric_dtypes, line)]

----------------------------------------------------------------------------
(* Log files.  A file is [exists, lines]; the k-th iteration block and the *)
(* j-th evaluation hold numbers that differ from block to block.           *)

NoFile == [exists |-> FALSE, lines |-> <<>>]

File(lines) == [exists |-> TRUE, lines |-> lines]

FmtSFloat(n, e) == IF n < 0 THEN <<"-">> \o FmtFloat(-n, e) ELSE FmtFloat(n, e)

\* a decimal as it is written, n / 10^e with e fraction digits, and the
\* float it denotes
Dec(n, e) == [n |-> n, e |-> e]

NumOf(dec) == Normal(dec.n, dec.e)

\* the numbers written in block k (k = 0, 1, ...) and in evaluation j
IterationOf(k) == k

EnvStepsOf(k) == 100 * (k + 1)

TrainStepsOf(k) == 10 * (k + 1)

CollectTimeOf(k) == Dec(11 * (k + 1), 1)

TrainTimeOf(k) == Dec(5 * (k + 1), 2)

EvalTimeOf(j) == Dec(25 * (j + 1), 1)

EvalReturnOf(j) == Dec((IF j % 2 = 1 THEN -1 ELSE 1) * (425 + j), 1)

IterationLine(n) == <<CSI, " ITERATION ">> \o FmtInt(n) \o <<CSI>>

EnvStepsLine(n) == <<"# Env. Steps:   ">> \o FmtInt(n)

TrainStepsLine(n) == <<"# Train Steps:  ">> \o FmtInt(n)

CollectTimeLine(f) == <<"# Collect time: [">> \o FmtSFloat(f.n, f.e) \o <<"]", "s">>

TrainTimeLine(f) == <<"# Train time:   [">> \o FmtSFloat(f.n, f.e) \o <<"]", "s">>

EvalTimeLine(f) == <<"# Eval time: [">> \o FmtSFloat(f.n, f.e) \o <<"]", "s">>

EvalReturnLine(f) == <<"# Eval average return: ">> \o FmtSFloat(f.n, f.e)

EpisodesLine(n) == <<"# Episodes:     ">> \o FmtInt(n)

TotalLine(f) == <<"# TOTAL:        [">> \o FmtSFloat(f.n, f.e) \o <<"]", "s">>

\* a well-formed iteration block, as the error message of metric_dfs shows it
Block(k) == << IterationLine(IterationOf(k)),
               EpisodesLine(k + 1),
               EnvStepsLine(EnvStepsOf(k)),
               TrainStepsLine(TrainStepsOf(k)),
               CollectTimeLine(CollectTimeOf(k)),
               TrainTimeLine(TrainTimeOf(k)),
               TotalLine(Dec(16 * (k + 1), 1)) >>

RECURSIVE LogFrom(_, _, _, _)
\* rounds k, k+1, ...: evaluation k (its time line while k < eT, its return
\* line while k < eR) and then block k (while k < N)
LogFrom(k, N, eT, eR) ==
    IF k >= N /\ k >= eT /\ k >= eR THEN <<>>
    ELSE (IF k < eT THEN <<EvalTimeLine(EvalTimeOf(k))>> ELSE <<>>)
         \o (IF k < eR THEN <<EvalReturnLine(EvalReturnOf(k))>> ELSE <<>>)
         \o (IF k < N THEN Block(k) ELSE <<>>)
         \o LogFrom(k + 1, N, eT, eR)

\* N well-formed blocks, eT eval times and eR eval returns
Log(N, eT, eR) == LogFrom(0, N, eT, eR)

\* single lines a log may also hold
OddLines ==
    { <<"# Env. Steps:   ", "1", ".", "5">>,                 \* no int
      <<" ITERATION ", "7", "]", "s">>,                      \* no int
      <<"# Collect time: [", "1", ".", "2", ".", "3", "]", "s">>,  \* no float
      <<"# Train time:   [", "]", "s">>,                     \* empty capture
      <<"# Eval time: [", "2", ".", "5">>,                   \* suffix missing
      <<"# Train Steps:  ", " ", "7", " ">>,                 \* blanks around
      <<" ITERATION ", "9">>,                                \* a block cut short
      <<"# Env. Steps:   ", CSI, "3", "0", CSI>>,            \* colour inside
      <<"# Eval average return: ", "-", "x">> }              \* no float

----------------------------------------------------------------------------
(* Objects *)

NoTable == [built |-> FALSE, cols |-> <<>>]

Table(cols) == [built |-> TRUE, cols |-> cols]

\* MetricsExtractor.__init__ for args.file[idx]; the flags it copies stay in args
NewExtractor(idx, nfiles) ==
    [file |-> idx,
     is_multiple_files |-> nfiles > 1,
     metrics |-> [train |-> <<>>, eval |-> <<>>],
     patterns |-> [train |-> <<>>, eval |-> <<>>],
     metric_dtypes |-> <<>>,
     df |-> [train |-> NoTable, eval |-> NoTable],
     visualize |-> [train |-> <<>>, eval |-> <<>>]]

None == "<None>"

\* MetricsVisualizer.__init__ (current_plot: whether it is a plot;
\* permanent_save_dir: <<>> for None)
NewVisualizer ==
    [current_plot |-> FALSE,
     current_y_max |-> NoneV,
     current_x_max |-> NoneV,
     current_x_min |-> NoneV,
     current_metric |-> None,
     current_legend_labels |-> <<>>,
     permanent_save_dir |-> <<>>]

\* the directories that exist, the charts shown and the files saved so far,
\* and the second in which the last plot folder was made
NewFs == [dirs |-> {<<"out">>}, shown |-> <<>>, saved |-> <<>>, clock |-> 0]

----------------------------------------------------------------------------
(* MetricsExtractor: the pieces of extract() *)

\* construct_metrics_dict keeping a list the dict already holds
construct_metrics_dict_keeps(e, kind_of_metric, metric) ==
    IF HasKey(e.metrics[kind_of_metric], metric) THEN e
    ELSE [e EXCEPT !.metrics[kind_of_metric] = Put(@, metric, <<>>)]

\* MetricsExtractor.construct_metrics_dict
construct_metrics_dict(e, kind_of_metric, metric) ==
    [e EXCEPT !.metrics[kind_of_metric] = Put(@, metric, <<>>)]

\* MetricsExtractor.compile_regex
compile_regex(e, kind_of_metric, title, pattern) ==
    [e EXCEPT !.patterns[kind_of_metric] = Put(@, title, pattern)]

RECURSIVE Register(_, _, _, _)
\* one of the two loops over a registry dict (lines 222-245), from entry i on
Register(e, kind, reg, i) ==
    IF i > Len(reg) THEN e
    ELSE LET m == reg[i]
             e1 == construct_metrics_dict(e, kind, m.name)
             e2 == compile_regex(e1, kind, m.name, [prefix |-> m.prefix, suffix |-> m.suffix])
             e3 == IF Len(m.dtype) >= 1
                   THEN [e2 EXCEPT !.metric_dtypes = Put(@, m.name, m.dtype[1])]
                   ELSE e2
         IN  Register(e3, kind, reg, i + 1)

RECURSIVE range(_, _, _)
\* list(range(start, stop, step)) for step # 0, as Python ints
range(start, stop, step) ==
    IF (step > 0 /\ start < stop) \/ (step < 0 /\ start > stop)
    THEN <<IntV(start)>> \o range(start + step, stop, step)
    ELSE <<>>

\* the index stopping at the last evaluation, start + (count - 1) * interval,
\* which range() excludes
ReconcileEvalShort(e, eval_start_iter, eval_interval) ==
    LET count == Len(Get(e.metrics.eval, "eval_avg_return"))
        last == eval_start_iter + (count - 1) * eval_interval
    IN  IF count = Len(Get(e.metrics.eval, "eval_time"))
        THEN IF eval_interval = 0
             THEN [raised |-> TRUE, e |-> e]
             ELSE [raised |-> FALSE,
                   e |-> [e EXCEPT !.metrics.eval =
                            Put(@, "iteration", range(eval_start_iter, last, eval_interval))]]
        ELSE [raised |-> FALSE, e |-> e]

\* lines 256-271: the eval iteration index.  [raised, e]: range() raises
\* ValueError for a step of 0
ReconcileEval(e, eval_start_iter, eval_interval) ==
    LET amount_eval_time_metrics == Len(Get(e.metrics.eval, "eval_time"))
        amount_eval_avg_return_metrics == Len(Get(e.metrics.eval, "eval_avg_return"))
        amount_eval_iterations == amount_eval_avg_return_metrics
        last_eval_iteration == eval_start_iter + amount_eval_iterations * eval_interval
    IN  IF amount_eval_avg_return_metrics = amount_eval_time_metrics
        THEN IF eval_interval = 0
             THEN [raised |-> TRUE, e |-> e]
             ELSE [raised |-> FALSE,
                   e |-> [e EXCEPT !.metrics.eval =
                            Put(@, "iteration",
                                range(eval_start_iter, last_eval_iteration, eval_interval))]]
        ELSE [raised |-> FALSE, e |-> e]

\* a DataFrame that takes lists of any lengths
DataFrameNeverRaises(d) == FALSE

\* pd.DataFrame(data=dict of lists) raises unless all lists are equally long
DataFrameRaises(d) == \E i, j \in 1..Len(d) : Len(d[i].v) # Len(d[j].v)

\* MetricsExtractor.metric_dfs: the pair of tables, or None ([ok |-> FALSE])
\* when either DataFrame raised
metric_dfs(e) ==
    IF DataFrameRaises(e.metrics.train) \/ DataFrameRaises(e.metrics.eval)
    THEN [ok |-> FALSE, train |-> NoTable, eval |-> NoTable]
    ELSE [ok |-> TRUE, train |-> Table(e.metrics.train), eval |-> Table(e.metrics.eval)]

IsNotIteration(m) == m # "iteration"

\* lines 286-288 with a failed build that also empties the series
BuildTablesOfDropsSeries(e) ==
    LET dfs == metric_dfs(e)
    IN  IF ~dfs.ok
        THEN [raised |-> TRUE,
              e |-> [e EXCEPT !.metrics =
                        [train |-> [i \in 1..Len(e.metrics.train) |->
                                       [k |-> e.metrics.train[i].k, v |-> <<>>]],
                         eval |-> [i \in 1..Len(e.metrics.eval) |->
                                       [k |-> e.metrics.eval[i].k, v |-> <<>>]]]]]
        ELSE [raised |-> FALSE,
              e |-> [e EXCEPT !.df = [train |-> dfs.train, eval |-> dfs.eval],
                              !.visualize =
                                  [train |-> SelectSeq(Keys(e.metrics.train), IsNotIteration),
                                   eval |-> SelectSeq(Keys(e.metrics.eval), IsNotIteration)]]]

\* lines 286-288.  [raised, e]: unpacking None raises TypeError before
\* anything is assigned
BuildTablesOf(e) ==
    LET dfs == metric_dfs(e)
    IN  IF ~dfs.ok THEN [raised |-> TRUE, e |-> e]
        ELSE [raised |-> FALSE,
              e |-> [e EXCEPT !.df = [train |-> dfs.train, eval |-> dfs.eval],
                              !.visualize =
                                  [train |-> SelectSeq(Keys(e.metrics.train), IsNotIteration),
                                   eval |-> SelectSeq(Keys(e.metrics.eval), IsNotIteration)]]]

\* the charts of one extractor, train metrics first
Charts(e) ==
    [i \in 1..Len(e.visualize.train) |-> [kind |-> "train", metric |-> e.visualize.train[i]]]
    \o [i \in 1..Len(e.visualize.eval) |-> [kind |-> "eval", metric |-> e.visualize.eval[i]]]

----------------------------------------------------------------------------
(* MetricsVisualizer *)

IsNum(x) == x.t \in {"int", "float"}

\* a < b for two numbers
Less(a, b) == a.n * Pow10(b.e) < b.n * Pow10(a.e)

\* max(col) / min(col) of Python: [ok, v]; ok is FALSE when it raises (an
\* empty column, or values that do not compare).  Of several strings one is
\* returned; which one is not modelled, show() raises on any of them.
MaxOf(col) ==
    IF Len(col) = 0 THEN [ok |-> FALSE, v |-> NoneV]
    ELSE IF Len(col) = 1 THEN [ok |-> TRUE, v |-> col[1]]
    ELSE IF \A i \in 1..Len(col) : IsNum(col[i])
    THEN [ok |-> TRUE,
          v |-> col[CHOOSE i \in 1..Len(col) :
                      /\ \A j \in 1..Len(col) : ~Less(col[i], col[j])
                      /\ \A j \in 1..(i - 1) : Less(col[j], col[i])]]
    ELSE IF \A i \in 1..Len(col) : col[i].t = "str" THEN [ok |-> TRUE, v |-> col[1]]
    ELSE [ok |-> FALSE, v |-> NoneV]

MinOf(col) ==
    IF Len(col) = 0 THEN [ok |-> FALSE, v |-> NoneV]
    ELSE IF Len(col) = 1 THEN [ok |-> TRUE, v |-> col[1]]
    ELSE IF \A i \in 1..Len(col) : IsNum(col[i])
    THEN [ok |-> TRUE,
          v |-> col[CHOOSE i \in 1..Len(col) :
                      /\ \A j \in 1..Len(col) : ~Less(col[j], col[i])
                      /\ \A j \in 1..(i - 1) : Less(col[i], col[j])]]
    ELSE IF \A i \in 1..Len(col) : col[i].t = "str" THEN [ok |-> TRUE, v |-> col[1]]
    ELSE [ok |-> FALSE, v |-> NoneV]

\* MetricsVisualizer.add_metric_to_line_plot.  [raised, v]: seaborn raises
\* for a df of None or without the columns; legend_label None adds no label
add_metric_to_line_plot(v, df, metric_name, legend_label) ==
    IF ~df.built \/ ~HasKey(df.cols, "iteration") \/ ~HasKey(df.cols, metric_name)
    THEN [raised |-> TRUE, v |-> v]
    ELSE LET ymax == MaxOf(Get(df.cols, metric_name))
             xmin == MinOf(Get(df.cols, "iteration"))
             xmax == MaxOf(Get(df.cols, "iteration"))
         IN  [raised |-> FALSE,
              v |-> [v EXCEPT
                  !.current_plot = TRUE,
                  !.current_y_max = IF ymax.ok THEN ymax.v ELSE @,
                  !.current_x_min = IF xmin.ok /\ xmax.ok THEN xmin.v ELSE @,
                  !.current_x_max = IF xmin.ok /\ xmax.ok THEN xmax.v ELSE @,
                  !.current_legend_labels =
                      IF legend_label # None THEN Append(@, legend_label) ELSE @,
                  !.current_metric = metric_name]]

\* clean_state that also forgets the plot folder
clean_state_forgets_dir(v) ==
    [v EXCEPT !.current_plot = FALSE,
              !.current_y_max = NoneV,
              !.current_x_max = NoneV,
              !.current_x_min = NoneV,
              !.current_metric = None,
              !.current_legend_labels = <<>>,
              !.permanent_save_dir = <<>>]

\* clean_state leaving the legend labels in place
clean_state_keeps_labels(v) ==
    [v EXCEPT !.current_plot = FALSE,
              !.current_y_max = NoneV,
              !.current_x_max = NoneV,
              !.current_x_min = NoneV,
              !.current_metric = None]

\* MetricsVisualizer.clean_state
clean_state(v) ==
    [v EXCEPT !.current_plot = FALSE,
              !.current_y_max = NoneV,
              !.current_x_max = NoneV,
              !.current_x_min = NoneV,
              !.current_metric = None,
              !.current_legend_labels = <<>>]

\* the folder create_plot_dir makes in dir, named by the current second
PlotFolder(dir, now) == <<dir, now>>

\* MetricsVisualizer.show.  [raised, v, f] with f the file system and screen:
\* it raises for current_plot None (None.set), for current_y_max None (y_max
\* is unbound at plt.ylim) or a str (str * 1.3), and in create_plot_dir for a
\* directory that does not exist or a folder that already does
show(v, f, is_show, save_dir, now) ==
    IF ~v.current_plot \/ ~IsNum(v.current_y_max)
    THEN [raised |-> TRUE, v |-> v, f |-> f]
    ELSE LET chart == [metric |-> v.current_metric,
                       legend |-> IF Len(v.current_legend_labels) > 1
                                  THEN v.current_legend_labels ELSE <<>>]
             f1 == IF is_show THEN [f EXCEPT !.shown = Append(@, chart)] ELSE f
         IN  IF save_dir \in {"", None}
             THEN [raised |-> FALSE, v |-> clean_state(v), f |-> f1]
             ELSE IF v.permanent_save_dir = <<>>
                     /\ (<<save_dir>> \notin f1.dirs \/ PlotFolder(save_dir, now) \in f1.dirs)
             THEN [raised |-> TRUE, v |-> v, f |-> f1]
             ELSE LET folder == IF v.permanent_save_dir = <<>>
                                THEN PlotFolder(save_dir, now) ELSE v.permanent_save_dir
                      f2 == [f1 EXCEPT !.dirs = @ \cup {folder},
                                       !.clock = IF v.permanent_save_dir = <<>> THEN now ELSE @,
                                       !.saved = Append(@, [dir |-> folder,
                                                           name |-> v.current_metric])]
                  IN  [raised |-> FALSE,
                       v |-> clean_state([v EXCEPT !.permanent_save_dir = folder]),
                       f |-> f2]

----------------------------------------------------------------------------
(* State.                                                                  *)
(*   args      the parsed flags: is_show, write_dir, eval_start,           *)
(*             eval_interval, label (<<>> for None)                        *)
(*   logs      logs[i] is the file args.file[i]                            *)
(*   registry  TRAIN_METRICS_REGEX and EVAL_METRICS_REGEX                  *)
(*   driver    "main": the __main__ block runs; "api": a caller holds one  *)
(*             MetricsExtractor and calls extract() on it                  *)
(*   pc, cur, lineno, vpos   where control is: the step, the extractor,    *)
(*             the next line of its file, the chart (m) and run (r) of the *)
(*             plotting loops                                              *)
(*   ex        the extractors                                              *)
(*   vis, fs   the one visualizer in use; directories, saved files, shown  *)
(*             charts                                                      *)
(*   outcome, calls, snaps   per extractor: how its last extract() ended,  *)
(*             how many were started, and the metrics at the end of each   *)
(***************************************************************************)

MaxFiles == 2

MaxBlocks == 2

MaxEvals == 4

MaxCalls == 2

is_write_dir == args.write_dir \notin {"", None}

CurFile == logs[ex[cur].file]

\* extract() of extractor cur ends, by return or by an exception, with
\* extractor state e, visualizer v and file system f.  Under __main__ an
\* exception reaches the except clause of line 439; a return goes on with the
\* next extractor, or after the last one with the comparison charts.
Leave(e, result, v, f) ==
    LET exNew == [ex EXCEPT ![cur] = e]
        compare == /\ driver = "main" /\ result = "returned"
                   /\ cur = Len(logs) /\ Len(logs) > 1
    IN  /\ ex' = exNew
        /\ outcome' = [outcome EXCEPT ![cur] = result]
        /\ snaps' = [snaps EXCEPT ![cur] = Append(@, e.metrics)]
        /\ fs' = f
        /\ lineno' = 0
        /\ vis' = IF compare THEN NewVisualizer ELSE v
        /\ vpos' = [m |-> 1, r |-> 1]
        /\ cur' = IF driver = "main" /\ result = "returned" /\ cur < Len(logs)
                  THEN cur + 1 ELSE cur
        /\ pc' = IF driver = "api" THEN "idle"
                 ELSE IF result = "raised" THEN "error"
                 ELSE IF cur < Len(logs) THEN "extract"
                 ELSE IF compare /\ Charts(exNew[1]) # <<>> THEN "multi_add"
                 ELSE "done"
        /\ UNCHANGED <<args, logs, registry, driver, calls>>

\* __main__, lines 390-393: one extractor per file; len(None) raises when no
\* --file was given
MainStart ==
    /\ driver = "main" /\ pc = "start"
    /\ IF Len(logs) = 0
       THEN pc' = "error" /\ ex' = ex
       ELSE /\ ex' = [i \in 1..Len(logs) |-> NewExtractor(i, Len(logs))]
            /\ pc' = "extract"
    /\ UNCHANGED <<args, logs, registry, driver, cur, lineno, outcome, calls,
                   snaps, vis, vpos, fs>>

\* extract(), lines 222-245: empty series, compiled patterns, datatypes
ExtractBegin ==
    /\ \/ driver = "main" /\ pc = "extract"
       \/ driver = "api" /\ pc = "idle" /\ calls[cur] < MaxCalls
    /\ ex' = [ex EXCEPT ![cur] =
                Register(Register(@, "train", registry.train, 1), "eval", registry.eval, 1)]
    /\ outcome' = [outcome EXCEPT ![cur] = "running"]
    /\ calls' = [calls EXCEPT ![cur] = @ + 1]
    /\ pc' = "open"
    /\ UNCHANGED <<args, logs, registry, driver, cur, lineno, snaps, vis, vpos, fs>>

\* get_regex_groups, lines 173-174: open() raises for a missing file
OpenFile ==
    /\ pc = "open"
    /\ IF ~CurFile.exists
       THEN Leave(ex[cur], "raised", vis, fs)
       ELSE /\ pc' = "scan"
            /\ lineno' = 1
            /\ UNCHANGED <<args, logs, registry, driver, cur, ex, outcome, calls,
                           snaps, vis, vpos, fs>>

\* get_regex_groups, lines 176-211: one line against every pattern
ReadLine ==
    /\ pc = "scan" /\ lineno <= Len(CurFile.lines)
    /\ ex' = [ex EXCEPT ![cur].metrics = MetricsAfterLine(ex[cur], CurFile.lines[lineno])]
    /\ lineno' = lineno + 1
    /\ UNCHANGED <<args, logs, registry, driver, pc, cur, outcome, calls, snaps,
                   vis, vpos, fs>>

\* extract(), lines 256-285, at the end of the file: the eval iteration index,
\* then on to the tables if charts are asked for
Reconcile ==
    /\ pc = "scan" /\ lineno > Len(CurFile.lines)
    /\ LET r == ReconcileEval(ex[cur], args.eval_start, args.eval_interval)
       IN  IF r.raised THEN Leave(r.e, "raised", vis, fs)
           ELSE IF args.is_show \/ is_write_dir
           THEN /\ ex' = [ex EXCEPT ![cur] = r.e]
                /\ pc' = "tables"
                /\ UNCHANGED <<args, logs, registry, driver, cur, lineno, outcome,
                               calls, snaps, vis, vpos, fs>>
           ELSE Leave(r.e, "returned", vis, fs)

\* extract(), lines 286-293: the tables and the names to plot; a single file
\* is plotted at once by a new visualizer
BuildTables ==
    /\ pc = "tables"
    /\ LET b == BuildTablesOf(ex[cur])
       IN  IF b.raised THEN Leave(b.e, "raised", vis, fs)
           ELSE IF ~b.e.is_multiple_files /\ Charts(b.e) # <<>>
           THEN /\ ex' = [ex EXCEPT ![cur] = b.e]
                /\ vis' = NewVisualizer
                /\ vpos' = [m |-> 1, r |-> 1]
                /\ pc' = "vis_add"
                /\ UNCHANGED <<args, logs, registry, driver, cur, lineno, outcome,
                               calls, snaps, fs>>
           ELSE Leave(b.e, "returned", vis, fs)

\* extract(), lines 297 and 301
AddMetric ==
    /\ pc = "vis_add"
    /\ LET c == Charts(ex[cur])[vpos.m]
           a == add_metric_to_line_plot(vis, ex[cur].df[c.kind], c.metric, None)
       IN  IF a.raised THEN Leave(ex[cur], "raised", a.v, fs)
           ELSE /\ vis' = a.v
                /\ pc' = "vis_show"
                /\ UNCHANGED <<args, logs, registry, driver, cur, lineno, ex, outcome,
                               calls, snaps, vpos, fs>>

\* extract(), lines 298 and 302; the second may have changed since the last
\* plot folder was made
Show ==
    /\ pc = "vis_show"
    /\ \E now \in {fs.clock, fs.clock + 1} :
         LET r == show(vis, fs, args.is_show, args.write_dir, now)
         IN  IF r.raised THEN Leave(ex[cur], "raised", r.v, r.f)
             ELSE IF vpos.m < Len(Charts(ex[cur]))
             THEN /\ vis' = r.v
                  /\ fs' = r.f
                  /\ vpos' = [vpos EXCEPT !.m = @ + 1]
                  /\ pc' = "vis_add"
                  /\ UNCHANGED <<args, logs, registry, driver, cur, lineno, ex,
                                 outcome, calls, snaps>>
             ELSE Leave(ex[cur], "returned", r.v, r.f)

\* __main__, lines 410-430: run vpos.r joins the chart of metric vpos.m.
\* args.label[ex_id] raises IndexError when len(args.label) = ex_id
MultiAdd ==
    /\ pc = "multi_add"
    /\ LET c == Charts(ex[1])[vpos.m]
           ex_id == vpos.r - 1
           picks == args.label # <<>> /\ Len(args.label) >= ex_id
           a == add_metric_to_line_plot(vis, ex[vpos.r].df[c.kind], c.metric,
                    IF picks THEN args.label[ex_id + 1] ELSE None)
       IN  IF picks /\ ex_id + 1 > Len(args.label)
           THEN pc' = "error" /\ UNCHANGED <<vis, vpos>>
           ELSE IF a.raised
           THEN pc' = "error" /\ vis' = a.v /\ vpos' = vpos
           ELSE /\ vis' = a.v
                /\ IF vpos.r < Len(ex)
                   THEN pc' = pc /\ vpos' = [vpos EXCEPT !.r = @ + 1]
                   ELSE pc' = "multi_show" /\ vpos' = vpos
    /\ UNCHANGED <<args, logs, registry, driver, cur, lineno, ex, outcome, calls,
                   snaps, fs>>

\* __main__, line 437
MultiShow ==
    /\ pc = "multi_show"
    /\ \E now \in {fs.clock, fs.clock + 1} :
         LET r == show(vis, fs, args.is_show, args.write_dir, now)
         IN  /\ vis' = r.v
             /\ fs' = r.f
             /\ IF r.raised THEN pc' = "error" /\ vpos' = vpos
                ELSE IF vpos.m < Len(Charts(ex[1]))
                THEN pc' = "multi_add" /\ vpos' = [m |-> vpos.m + 1, r |-> 1]
                ELSE pc' = "done" /\ vpos' = vpos
    /\ UNCHANGED <<args, logs, registry, driver, cur, lineno, ex, outcome, calls, snaps>>

----------------------------------------------------------------------------
(* Inputs *)

Seqs(S, n) == UNION {[1..k -> S] : k \in 0..n}

\* the files of a comparison: missing, complete, 3 eval times for 2 eval
\* returns, a block cut short, and an empty file
MainFiles ==
    { NoFile,
      File(Log(1, 1, 1)),
      File(Log(1, 3, 2)),
      File(Log(1, 1, 1) \o << <<" ITERATION ", "9">> >>),
      File(<<>>) }

Labels == <<"run a", "run b", "run c", "run d">>

Flags == { [is_show |-> sh, write_dir |-> wd] :
             sh \in BOOLEAN, wd \in {"", "out"} }

StateAfter(d, fileSeq) ==
    /\ driver = d
    /\ logs = fileSeq
    /\ lineno = 0
    /\ vis = NewVisualizer
    /\ vpos = [m |-> 1, r |-> 1]
    /\ fs = NewFs
    /\ outcome = [i \in 1..Len(fileSeq) |-> "none"]
    /\ calls = [i \in 1..Len(fileSeq) |-> 0]
    /\ snaps = [i \in 1..Len(fileSeq) |-> <<>>]

\* __main__ after parse_args, with the default eval flags
Init ==
    /\ \E fileSeq \in Seqs(MainFiles, MaxFiles) : StateAfter("main", fileSeq)
    /\ registry = DefaultRegistry
    /\ \E fl \in Flags, nl \in 0..Len(logs) :
         args = [is_show |-> fl.is_show, write_dir |-> fl.write_dir,
                 eval_start |-> -1, eval_interval |-> 5,
                 label |-> SubSeq(Labels, 1, nl)]
    /\ pc = "start"
    /\ cur = 1
    /\ ex = <<>>

Next == \/ MainStart
        \/ ExtractBegin
        \/ OpenFile
        \/ ReadLine
        \/ Reconcile
        \/ BuildTables
        \/ AddMetric
        \/ Show
        \/ MultiAdd
        \/ MultiShow

Spec == Init /\ [][Next]_vars

----------------------------------------------------------------------------
(* One MetricsExtractor for one file, and a caller that calls extract() on  *)
(* it up to MaxCalls times.                                                *)

EvalStarts == {-1, 0}

EvalIntervals == {-2, 0, 1, 5}

\* logs of complete blocks and evaluations, with every eval flag
PlainInputs ==
    { [file |-> File(Log(N, eT, eR)), registry |-> DefaultRegistry,
       is_show |-> fl.is_show, write_dir |-> fl.write_dir,
       eval_start |-> s, eval_interval |-> d] :
        N \in 0..MaxBlocks, eT \in 0..MaxEvals, eR \in 0..MaxEvals,
        fl \in Flags \ {[is_show |-> TRUE, write_dir |-> "out"]},
        s \in EvalStarts, d \in EvalIntervals }

\* logs with one odd line before or after the rest, under both registries,
\* with the default eval flags; no charts, only the series
OddInputs ==
    { [file |-> File(IF first THEN <<odd>> \o Log(N, eT, eR)
                              ELSE Log(N, eT, eR) \o <<odd>>),
       registry |-> reg,
       is_show |-> FALSE, write_dir |-> "",
       eval_start |-> -1, eval_interval |-> 5] :
        N \in 0..MaxBlocks, eT \in 0..1, eR \in 0..1, odd \in OddLines,
        first \in BOOLEAN, reg \in {DefaultRegistry, EditedRegistry} }

\* a file that does not exist
MissingInput ==
    [file |-> NoFile, registry |-> DefaultRegistry, is_show |-> FALSE,
     write_dir |-> "", eval_start |-> -1, eval_interval |-> 5]

InitEx ==
    \E in \in PlainInputs \cup OddInputs \cup {MissingInput} :
        /\ StateAfter("api", <<in.file>>)
        /\ registry = in.registry
        /\ args = [is_show |-> in.is_show, write_dir |-> in.write_dir,
                   eval_start |-> in.eval_start, eval_interval |-> in.eval_interval,
                   label |-> <<>>]
        /\ pc = "idle"
        /\ cur = 1
        /\ ex = <<NewExtractor(1, 1)>>

NextEx == \/ ExtractBegin
          \/ OpenFile
          \/ ReadLine
          \/ Reconcile
          \/ BuildTables
          \/ AddMetric
          \/ Show

SpecEx == InitEx /\ [][NextEx]_vars

----------------------------------------------------------------------------
(* Properties *)

Runs == 1..Len(ex)

\* extract() of run i has ended, by return or by an exception
Ended(i) == outcome[i] \in {"returned", "raised"}

Halted == pc \in {"done", "error"}

TablesAsked == args.is_show \/ is_write_dir

Series(i, kind, title) == Get(ex[i].metrics[kind], title)

\* two series of the dict differ in length
Unequal(d) == \E a, b \in 1..Len(d) : Len(d[a].v) # Len(d[b].v)

\* C1: when a run's eval series differ in length while its train series are
\* equally long, and tables are asked for, the eval table is absent and the
\* train table is in df["train"] once the run's extract() has ended.
C1_TrainTableSurvives ==
    \A i \in Runs :
        (/\ Ended(i) /\ logs[i].exists /\ TablesAsked
         /\ Unequal(ex[i].metrics.eval) /\ ~Unequal(ex[i].metrics.train))
        => (ex[i].df.train.built /\ ~ex[i].df.eval.built)

\* C2: when the program has halted and the only runs that failed are runs
\* whose file is missing, every run whose file exists was extracted.
C2_OtherRunsExtracted ==
    (/\ Halted
     /\ \A i \in 1..Len(logs) : outcome[i] = "raised" => ~logs[i].exists)
    => \A i \in 1..Len(logs) : logs[i].exists => outcome[i] = "returned"

\* C3: when several files, all present, are processed with tables asked for,
\* then once the program has halted every run has returned from extract()
\* without an exception, a run with series of unequal length has no table,
\* and every other run has both its tables.
C3_TableFailureStaysInRun ==
    (/\ Halted /\ Len(logs) > 1 /\ TablesAsked
     /\ \A i \in 1..Len(logs) : logs[i].exists)
    => \A i \in Runs :
         /\ outcome[i] = "returned"
         /\ (Unequal(ex[i].metrics.train) \/ Unequal(ex[i].metrics.eval))
                => (~ex[i].df.train.built \/ ~ex[i].df.eval.built)
         /\ (~Unequal(ex[i].metrics.train) /\ ~Unequal(ex[i].metrics.eval))
                => (ex[i].df.train.built /\ ex[i].df.eval.built)

\* the eval iteration index of run i is start, start + interval, ... with
\* one entry for each of its n eval samples
IndexIs(i, n) ==
    /\ HasKey(ex[i].metrics.eval, "iteration")
    /\ Series(i, "eval", "iteration") =
           [k \in 1..n |-> IntV(args.eval_start + (k - 1) * args.eval_interval)]
    /\ \A c \in 1..Len(ex[i].metrics.eval) : Len(ex[i].metrics.eval[c].v) = n

\* both eval metrics of run i have n samples
EvalCount(i, n) ==
    /\ Len(Series(i, "eval", "eval_time")) = n
    /\ Len(Series(i, "eval", "eval_avg_return")) = n

C5_TableOnlyOfEqualSeries ==
    [][ pc = "tables" =>
          \A i \in Runs :
              /\ ex'[i].metrics = ex[i].metrics
              /\ \A kind \in {"train", "eval"} :
                    IF Unequal(ex[i].metrics[kind])
                    THEN ~ex'[i].df[kind].built
                    ELSE ex'[i].df[kind].built =>
                            ex'[i].df[kind].cols = ex[i].metrics[kind] ]_vars

\* one run has its tables and the next one, with 3 eval times for 2 eval
\* returns, was refused them
C5_Witness ==
    /\ Len(ex) = 2
    /\ ex[1].df.train.built /\ ex[1].df.eval.built
    /\ Len(Series(1, "train", "iteration")) = 1
    /\ outcome[2] = "raised" /\ logs[2].exists
    /\ Len(Series(2, "eval", "eval_time")) = 3
    /\ Len(Series(2, "eval", "eval_avg_return")) = 2
    /\ ~ex[2].df.train.built /\ ~ex[2].df.eval.built

\* the line being read matches the pattern of registry entry m: without its
\* colour codes it is the prefix, some text, and the suffix
Reading == pc = "scan" /\ lineno <= Len(CurFile.lines)

Captured(m, cap) ==
    SelectSeq(CurFile.lines[lineno], IsNotCSI) = <<m.prefix>> \o cap \o m.suffix

Capture(m) ==
    LET cl == SelectSeq(CurFile.lines[lineno], IsNotCSI)
    IN  SubSeq(cl, 2, Len(cl) - Len(m.suffix))

LineMatches(m) ==
    /\ Len(SelectSeq(CurFile.lines[lineno], IsNotCSI)) >= 1 + Len(m.suffix)
    /\ Captured(m, Capture(m))

\* C6: reading a line that matches the pattern of a metric whose declared
\* type is none of int, float, str, string appends nothing to its series.
C6_UnknownTypeAppendsNothing ==
    [][ Reading =>
          \A kind \in {"train", "eval"} : \A x \in 1..Len(registry[kind]) :
              LET m == registry[kind][x]
              IN  (LineMatches(m) /\ Len(m.dtype) = 1 /\ m.dtype[1] \notin KnownTypes)
                  => Len(Series(cur, kind, m.name)')
                       = Len(Series(cur, kind, m.name)) ]_vars

\* text that is no int / no float for Python: after stripping blanks and one
\* sign, something other than digits (and at most one "." for a float), or
\* no digit at all
NoInt(cap) ==
    LET t == Strip(cap)
        b == IF t # <<>> /\ t[1] \in {"-", "+"} THEN Tail(t) ELSE t
    IN  b = <<>> \/ \E k \in 1..Len(b) : b[k] \notin DigitSet

NoFloat(cap) ==
    LET t == Strip(cap)
        b == IF t # <<>> /\ t[1] \in {"-", "+"} THEN Tail(t) ELSE t
    IN  \/ \E k \in 1..Len(b) : b[k] \notin DigitSet \cup {"."}
        \/ \E k, l \in 1..Len(b) : k # l /\ b[k] = "." /\ b[l] = "."
        \/ \A k \in 1..Len(b) : b[k] = "."

\* C7: reading a line that matches an int or float metric with text that
\* does not parse appends that text, as captured, to the metric's series,
\* and the scan goes on to the next line: extract() does not end there.
C7_UnparsedTextIsKept ==
    [][ Reading =>
          /\ pc' = "scan" /\ lineno' = lineno + 1 /\ outcome' = outcome
          /\ \A kind \in {"train", "eval"} : \A x \in 1..Len(registry[kind]) :
               LET m == registry[kind][x]
               IN  (/\ LineMatches(m)
                    /\ \/ m.dtype = <<"int">> /\ NoInt(Capture(m))
                       \/ m.dtype = <<"float">> /\ NoFloat(Capture(m)))
                   => Series(cur, kind, m.name)'
                        = Append(Series(cur, kind, m.name), StrV(Capture(m))) ]_vars

\* "1.5" was kept as text in the int series env_steps, and the two blocks
\* after it were read
C7_Witness ==
    /\ Ended(1) /\ registry = DefaultRegistry
    /\ Series(1, "train", "env_steps")
         = <<StrV(<<"1", ".", "5">>), IntV(100), IntV(200)>>
    /\ Len(Series(1, "train", "train_time")) = 2

\* C8: reading a line leaves the series of every metric whose pattern the
\* line does not match as it was.
C8_NoMatchNoChange ==
    [][ Reading =>
          \A kind \in {"train", "eval"} : \A x \in 1..Len(registry[kind]) :
              LET m == registry[kind][x]
              IN  ~LineMatches(m)
                  => Series(cur, kind, m.name)' = Series(cur, kind, m.name) ]_vars

\* a line was read that matched env_steps and nothing else: the series before
\* it kept their one value
C8_Witness ==
    /\ pc = "scan" /\ lineno > 1
    /\ CurFile.lines[lineno - 1] = <<"# Env. Steps:   ", "2", "0", "0">>
    /\ Len(Series(cur, "train", "env_steps")) = 2
    /\ Len(Series(cur, "train", "iteration")) = 2
    /\ Len(Series(cur, "train", "train_steps")) = 1
    /\ Len(Series(cur, "eval", "eval_time")) = 1

\* the train series a log of N well-formed blocks must give
ExpectedTrain(N) ==
    << [k |-> "iteration", v |-> [b \in 1..N |-> IntV(IterationOf(b - 1))]],
       [k |-> "env_steps", v |-> [b \in 1..N |-> IntV(EnvStepsOf(b - 1))]],
       [k |-> "train_steps", v |-> [b \in 1..N |-> IntV(TrainStepsOf(b - 1))]],
       [k |-> "collect_time", v |-> [b \in 1..N |-> NumOf(CollectTimeOf(b - 1))]],
       [k |-> "train_time", v |-> [b \in 1..N |-> NumOf(TrainTimeOf(b - 1))]] >>

\* C9: after extract() of a log of N well-formed blocks (with any number of
\* eval lines between them), the five train series hold, in block order, the
\* N numbers written in the blocks.
C9_BlocksRoundTrip ==
    (Ended(1) /\ registry = DefaultRegistry) =>
        \A N \in 0..MaxBlocks : \A eT \in 0..MaxEvals : \A eR \in 0..MaxEvals :
            logs[1] = File(Log(N, eT, eR)) => ex[1].metrics.train = ExpectedTrain(N)

\* two blocks gave two values per series, 0.05 and 0.1 for train_time
C9_Witness ==
    /\ Ended(1) /\ logs[1] = File(Log(2, 0, 0))
    /\ Len(Series(1, "train", "iteration")) = 2
    /\ Series(1, "train", "train_time") = <<FloatV(5, 2), FloatV(1, 1)>>

\* C10: the metrics at the end of every later extract() of the same file are
\* those at the end of the first: train series, eval series and eval index.
C10_SecondExtractSame ==
    \A i \in 1..Len(snaps) : \A c \in 1..Len(snaps[i]) : snaps[i][c] = snaps[i][1]

\* a second extract() ended on a log with blocks and evaluations
C10_Witness ==
    /\ Len(snaps[1]) = 2 /\ Ended(1)
    /\ Len(Series(1, "train", "iteration")) = 2
    /\ HasKey(ex[1].metrics.eval, "iteration")
    /\ Len(Series(1, "eval", "iteration")) = 2

\* where run i stands.  Idle: extract() not called.  PatternsCompiled: the
\* registry loops are done and the file is being opened or read, or could not
\* be opened.  Scanned: the file was read to its end and the eval index
\* settled, or extract() ended there for want of a chart flag or on the
\* index.  TablesBuilt / TableBuildFailed: how lines 286-288 went.
Stage(i) ==
    IF i \notin Runs \/ outcome[i] = "none" THEN "Idle"
    ELSE IF outcome[i] = "running"
    THEN IF pc \in {"open", "scan"} THEN "PatternsCompiled"
         ELSE IF pc = "tables" THEN "Scanned"
         ELSE "TablesBuilt"
    ELSE IF ex[i].df.train.built THEN "TablesBuilt"
    ELSE IF outcome[i] = "returned" THEN "Scanned"
    ELSE IF ~logs[i].exists THEN "PatternsCompiled"
    ELSE IF args.eval_interval = 0 THEN "Scanned"
    ELSE "TableBuildFailed"

StageOrder ==
    { <<"Idle", "PatternsCompiled">>,
      <<"PatternsCompiled", "Scanned">>,
      <<"Scanned", "TablesBuilt">>,
      <<"Scanned", "TableBuildFailed">> }

\* every entry of both registries has its compiled pattern in run i
AllCompiled(i) ==
    \A kind \in {"train", "eval"} : \A x \in 1..Len(registry[kind]) :
        LET m == registry[kind][x]
        IN  /\ HasKey(ex[i].patterns[kind], m.name)
            /\ Get(ex[i].patterns[kind], m.name) = [prefix |-> m.prefix, suffix |-> m.suffix]

\* C11: every step leaves a run in its stage or moves it one stage on, in the
\* order Idle, PatternsCompiled, Scanned, then TablesBuilt or
\* TableBuildFailed; a line is read only with every pattern compiled; the
\* tables change only in a run whose file was read to its end; and the step
\* into TableBuildFailed and every step after it leave the run's series as
\* they were, each still under its name.
C11_StagesInOrder ==
    [][ /\ Reading => (Stage(cur) = "PatternsCompiled" /\ AllCompiled(cur))
        /\ \A i \in 1..Len(logs) :
              /\ Stage(i)' = Stage(i) \/ <<Stage(i), Stage(i)'>> \in StageOrder
              /\ (i \in Runs /\ ex'[i].df # ex[i].df)
                    => (/\ Stage(i) = "Scanned" /\ cur = i
                        /\ lineno > Len(logs[i].lines))
              /\ (i \in Runs /\ "TableBuildFailed" \in {Stage(i), Stage(i)'})
                    => (/\ ex'[i].metrics = ex[i].metrics
                        /\ \A kind \in {"train", "eval"} :
                              \A x \in 1..Len(registry[kind]) :
                                 HasKey(ex'[i].metrics[kind], registry[kind][x].name)) ]_vars

\* the second run of two went through every stage to TableBuildFailed, with
\* 3 eval times for 2 eval returns, after the first had its tables built
C11_Witness ==
    /\ Len(ex) = 2
    /\ Stage(1) = "TablesBuilt" /\ Stage(2) = "TableBuildFailed"
    /\ Len(Series(2, "train", "iteration")) = 1
    /\ Len(Series(2, "eval", "eval_time")) = 3
    /\ Len(Series(2, "eval", "eval_avg_return")) = 2

\* the next step is the first add_metric_to_line_plot of a chart: the only
\* one in extract() (lines 297, 301), that of the first run in __main__
FirstAdd == pc = "vis_add" \/ (pc = "multi_add" /\ vpos.r = 1)

\* the fields of a visualizer that clean_state resets
Transient(v) ==
    [current_plot |-> v.current_plot,
     current_y_max |-> v.current_y_max,
     current_x_max |-> v.current_x_max,
     current_x_min |-> v.current_x_min,
     current_metric |-> v.current_metric,
     current_legend_labels |-> v.current_legend_labels]

\* C12: at the first add_metric_to_line_plot of every chart, in extract() and
\* in the comparison loop of __main__, the visualizer's current plot, axis
\* limits, current metric and legend labels are those of a new visualizer,
\* and every earlier chart has been shown (with --show) and saved (with a
\* write directory).
C12_CleanAtFirstAdd ==
    FirstAdd =>
        /\ Transient(vis) = Transient(NewVisualizer)
        /\ args.is_show => Len(fs.shown) = vpos.m - 1
        /\ is_write_dir => Len(fs.saved) = vpos.m - 1

\* the second chart of a comparison of two labelled runs is about to get its
\* first line; the first chart was shown with both labels in its legend
C12_Witness ==
    /\ pc = "multi_add" /\ vpos = [m |-> 2, r |-> 1]
    /\ Len(fs.shown) = 1
    /\ fs.shown[1].legend = <<"run a", "run b">>
    /\ fs.shown[1].metric # None

\* the next step is a show() of the visualizer
Showing == pc \in {"vis_show", "multi_show"}

\* the plot folders made so far
PlotFolders == {d \in fs.dirs : Len(d) = 2}

\* C13: a directory is made only by a show() with a write directory, of a
\* visualizer that has no plot folder yet and has saved nothing: it is one
\* timestamped folder inside the write directory and becomes the
\* visualizer's plot folder.  A plot folder once set stays.  Every show()
\* with a write directory that does not raise saves one file, into the plot
\* folder and under the name of the chart's metric; nothing else saves a
\* file, and without a write directory nothing is made or saved.
C13_PlotFolderOnce ==
    [][ /\ vis.permanent_save_dir # <<>>
              => vis'.permanent_save_dir = vis.permanent_save_dir
        /\ fs'.dirs # fs.dirs
              => /\ Showing /\ is_write_dir
                 /\ vis.permanent_save_dir = <<>> /\ fs.saved = <<>>
                 /\ PlotFolders = {}
                 /\ fs'.dirs = fs.dirs \cup {vis'.permanent_save_dir}
                 /\ Len(vis'.permanent_save_dir) = 2
                 /\ vis'.permanent_save_dir[1] = args.write_dir
                 /\ Len(fs'.saved) = 1
        /\ fs'.saved # fs.saved
              => /\ Showing /\ is_write_dir
                 /\ vis'.permanent_save_dir \in PlotFolders'
                 /\ fs'.saved = Append(fs.saved, [dir |-> vis'.permanent_save_dir,
                                                  name |-> vis.current_metric])
        /\ (Showing /\ is_write_dir /\ ~vis'.current_plot)
              => Len(fs'.saved) = Len(fs.saved) + 1
        /\ ~is_write_dir => (fs'.dirs = fs.dirs /\ fs'.saved = fs.saved) ]_vars

\* two charts of one file were saved, as env_steps and train_steps, into the
\* one plot folder there is, and the visualizer is clean for the third
C13_Witness ==
    /\ pc = "vis_add" /\ vpos.m = 3
    /\ Len(fs.saved) = 2
    /\ fs.saved[1] = [dir |-> vis.permanent_save_dir, name |-> "env_steps"]
    /\ fs.saved[2] = [dir |-> vis.permanent_save_dir, name |-> "train_steps"]
    /\ PlotFolders = {vis.permanent_save_dir}
    /\ vis.current_metric = None

\* C14: in the comparison loop of __main__, with any number of labels from
\* none to one per file, adding run number i (counted from 0) to a chart
\* never fails, and it appends the i-th label to the chart's legend labels
\* when i is less than the number of labels and leaves them as they are
\* otherwise.
C14_LabelOrNone ==
    [][ pc = "multi_add" =>
          LET i == vpos.r - 1
          IN  /\ Len(args.label) <= Len(logs)
              /\ pc' # "error"
              /\ vis'.current_legend_labels =
                    IF i < Len(args.label)
                    THEN Append(vis.current_legend_labels, args.label[i + 1])
                    ELSE vis.current_legend_labels ]_vars

====
